---- MODULE Spec2Model ----
(* A model of the three teaching programs of the repository:              *)
(*   - su22/code/advanced_traits/src/main.rs : same-named trait methods   *)
(*     and the call forms that select among them;                         *)
(*   - su22/code/demo/src/lib.rs : a stack drained by `while let`, then   *)
(*     a match on an Option;                                              *)
(*   - su22/code/demo/src/main.rs : a HashMap lookup driven by a match on *)
(*     the key.                                                           *)
(* Spec runs the three programs, each from its first statement to its     *)
(* last, as independent processes.  SpecCalls applies the four call forms *)
(* of advanced_traits to one Human value in every order.                  *)
EXTENDS Integers, Sequences, FiniteSets, TLC

\* Longest sequence of calls SpecCalls makes on one Human value.
MaxCalls == 4

VARIABLES
    t_pc,        \* advanced_traits main: line of the next statement
    person,      \* advanced_traits main: the local `person`
    out,         \* advanced_traits: lines written to standard output
    calls,       \* advanced_traits: the call forms executed so far
    resolved,    \* advanced_traits: per call, the set of items it resolved to
    emitted,     \* advanced_traits: per call, the lines it wrote
    ret,         \* advanced_traits: per call, the value it returned
    d_pc,        \* demo(): line of the next statement
    stack,       \* demo(): the local `stack`
    top,         \* demo(): the binding `top` of the while-let
    iters,       \* demo(): completed iterations of the while-let body
    d_out,       \* demo(): lines written to standard output
    matcher,     \* demo(): the local `matcher`
    arm,         \* demo(): the arm the match on `matcher` took
    m_pc,        \* demo main: line of the next statement
    map,         \* demo main: the local `map`
    start,       \* demo main: the local `start`
    repeat,      \* demo main: the local `repeat`
    remaining,   \* demo main: the local `remaining`
    message,     \* demo main: the local `message`
    keys,        \* demo main: keys the iterator of the for loop has yet to yield
    key,         \* demo main: the loop variable `key`
    m_iters,     \* demo main: iterations of the for loop started
    m_panic,     \* demo main: "" or the panic that ended the program
    m_out        \* demo main: lines written to standard output

t_vars == <<t_pc, person, out, calls, resolved, emitted, ret>>
d_vars == <<d_pc, stack, top, iters, d_out, matcher, arm>>
m_vars == <<m_pc, map, start, repeat, remaining, message, keys, key,
            m_iters, m_panic, m_out>>
vars == <<t_vars, d_vars, m_vars>>

-----------------------------------------------------------------------------
(* Values shared by the programs.                                          *)

\* Option<T>
None == [tag |-> "None"]
Some(v) == [tag |-> "Some", val |-> v]

\* The unit value `()`, returned by a fn without a return type.
Unit == <<>>

\* A declared local that no statement has assigned yet (`let mut x: T;`).
Unassigned == [tag |-> "Unassigned"]
Assigned(v) == [tag |-> "Assigned", val |-> v]

\* println!: one line appended to standard output.
println(stdout, line) == Append(stdout, line)

-----------------------------------------------------------------------------
(* advanced_traits/src/main.rs, mod fly.                                   *)

\* `pub struct Human;` - a unit struct: a value of the type has no fields.
Human == [ty |-> "Human"]

\* Pilot's body written with Wizard's line.
Pilot_fly_pasted(self, stdout) ==
    [self |-> self, out |-> println(stdout, "Up!"), ret |-> Unit]

\* <Human as Pilot>::fly(&self): one line, `self` untouched, returns ().
Pilot_fly(self, stdout) ==
    [self |-> self, out |-> println(stdout, "This is your captain speaking."),
     ret |-> Unit]

\* Wizard's body reading what Pilot wrote: silent right after the captain spoke.
Wizard_fly_afterPilot(self, stdout) ==
    [self |-> self,
     out |-> IF stdout # <<>>
                /\ stdout[Len(stdout)] = "This is your captain speaking."
             THEN stdout ELSE println(stdout, "Up!"),
     ret |-> Unit]

\* <Human as Wizard>::fly(&self)
Wizard_fly(self, stdout) ==
    [self |-> self, out |-> println(stdout, "Up!"), ret |-> Unit]

\* The inherent body keeping count in `self`: it tires after one flight.
Human_fly_tiring(self, stdout) ==
    [self |-> [ty |-> self.ty, tired |-> TRUE],
     out |-> println(stdout, IF "tired" \in DOMAIN self
                             THEN "*too tired to wave*"
                             ELSE "*waving arms furiously*"),
     ret |-> Unit]

\* Human::fly(&self), the inherent method
Human_fly(self, stdout) ==
    [self |-> self, out |-> println(stdout, "*waving arms furiously*"),
     ret |-> Unit]

\* The associated functions the crate defines: the type they are defined for,
\* the trait they implement ("" for an inherent impl), their name, and whether
\* they take a `self` receiver (only those are callable as `value.name()`).
Items ==
    { [ty |-> "Human", trait |-> "Pilot",  name |-> "fly",       method |-> TRUE],
      [ty |-> "Human", trait |-> "Wizard", name |-> "fly",       method |-> TRUE],
      [ty |-> "Human", trait |-> "",       name |-> "fly",       method |-> TRUE],
      [ty |-> "Dog",   trait |-> "",       name |-> "baby_name", method |-> FALSE],
      [ty |-> "Dog",   trait |-> "Animal", name |-> "baby_name", method |-> FALSE] }

\* `use crate::{fly::{Wizard,Pilot}};` - the traits in scope in main.
TraitsInScope == {"Wizard", "Pilot"}

\* The four call forms main uses, by the path written before `fly`.
PilotPath == "fly::Pilot::fly(&person)"
WizardPath == "fly::Wizard::fly(&person)"
HumanPath == "fly::Human::fly(&person)"
MethodCall == "person.fly()"
CallForms == {PilotPath, WizardPath, HumanPath, MethodCall}

\* Items a trait-qualified path `Trait::name(&value)` names for a value of type ty.
TraitCandidates(trait, ty, name) ==
    {i \in Items : i.trait = trait /\ i.ty = ty /\ i.name = name}

\* Resolution in which the traits in scope are looked at before the type.
InherentFirst_traitsWin(ty, name, methodsOnly) ==
    LET usable == {i \in Items : i.ty = ty /\ i.name = name
                                 /\ (methodsOnly => i.method)}
        traits == {i \in usable : i.trait \in TraitsInScope}
    IN  IF traits # {} THEN traits
        ELSE {i \in usable : i.trait = ""}

\* Resolution without a priority: inherent and trait items all compete.
InherentFirst_noPriority(ty, name, methodsOnly) ==
    {i \in Items : /\ i.ty = ty /\ i.name = name
                   /\ (methodsOnly => i.method)
                   /\ i.trait \in TraitsInScope \cup {""}}

\* Items a type-qualified path `Type::name` or a method call `value.name()`
\* names: the inherent items of the type; the items of the traits in scope are
\* looked at only when the type has no inherent item of the name.
InherentFirst(ty, name, methodsOnly) ==
    LET usable == {i \in Items : i.ty = ty /\ i.name = name
                                 /\ (methodsOnly => i.method)}
        inherent == {i \in usable : i.trait = ""}
    IN  IF inherent # {} THEN inherent
        ELSE {i \in usable : i.trait \in TraitsInScope}

\* The two trait-qualified paths taken for each other.
Candidates_swapped(form, ty) ==
    CASE form = PilotPath  -> TraitCandidates("Wizard", ty, "fly")
      [] form = WizardPath -> TraitCandidates("Pilot", ty, "fly")
      [] form = HumanPath  -> InherentFirst("Human", "fly", FALSE)
      [] form = MethodCall -> InherentFirst(ty, "fly", TRUE)

\* The items call form `form` names when the receiver has type ty.
Candidates(form, ty) ==
    CASE form = PilotPath  -> TraitCandidates("Pilot", ty, "fly")
      [] form = WizardPath -> TraitCandidates("Wizard", ty, "fly")
      [] form = HumanPath  -> InherentFirst("Human", "fly", FALSE)
      [] form = MethodCall -> InherentFirst(ty, "fly", TRUE)

\* Running the body of item i on `self`.
Invoke(i, self, stdout) ==
    CASE i.ty = "Human" /\ i.trait = "Pilot"  -> Pilot_fly(self, stdout)
      [] i.ty = "Human" /\ i.trait = "Wizard" -> Wizard_fly(self, stdout)
      [] i.ty = "Human" /\ i.trait = ""       -> Human_fly(self, stdout)

\* What a call the compiler rejects leaves in `ret`: the statement never runs.
Rejected == <<"rejected">>

\* One call statement of main: the call form resolves, the item runs.  A form
\* that names no item, or more than one, does not compile: nothing runs.
Call(form) ==
    LET cands == Candidates(form, person.ty)
        r == IF Cardinality(cands) = 1
             THEN Invoke(CHOOSE i \in cands : TRUE, person, out)
             ELSE [self |-> person, out |-> out, ret |-> Rejected]
    IN  /\ person' = r.self
        /\ out' = r.out
        /\ calls' = Append(calls, form)
        /\ resolved' = Append(resolved, cands)
        /\ emitted' = Append(emitted, SubSeq(r.out, Len(out) + 1, Len(r.out)))
        /\ ret' = Append(ret, r.ret)

\* The person before `let person = fly::Human;` has run.
NoPerson == [ty |-> ""]

t_Init ==
    /\ t_pc = 52
    /\ person = NoPerson
    /\ out = <<>>
    /\ calls = <<>>
    /\ resolved = <<>>
    /\ emitted = <<>>
    /\ ret = <<>>

\* line 52: let person = fly::Human;
t_Let ==
    /\ t_pc = 52
    /\ person' = Human
    /\ t_pc' = 53
    /\ UNCHANGED <<out, calls, resolved, emitted, ret, d_vars, m_vars>>

\* line 53: fly::Pilot::fly(&person);
t_Pilot ==
    /\ t_pc = 53
    /\ Call(PilotPath)
    /\ t_pc' = 54
    /\ UNCHANGED <<d_vars, m_vars>>

\* line 54: fly::Wizard::fly(&person);
t_Wizard ==
    /\ t_pc = 54
    /\ Call(WizardPath)
    /\ t_pc' = 55
    /\ UNCHANGED <<d_vars, m_vars>>

\* line 55: fly::Human::fly(&person);
t_Human ==
    /\ t_pc = 55
    /\ Call(HumanPath)
    /\ t_pc' = 56
    /\ UNCHANGED <<d_vars, m_vars>>

\* line 56: person.fly();  then main returns (line 57).
t_Method ==
    /\ t_pc = 56
    /\ Call(MethodCall)
    /\ t_pc' = 57
    /\ UNCHANGED <<d_vars, m_vars>>

t_Done == t_pc = 57

\* The statements of lines 53..56 applied to one Human in any order and number
\* (the call forms take `&person`, so each can follow any other).
c_Init ==
    /\ t_pc = 53
    /\ person = Human
    /\ out = <<>>
    /\ calls = <<>>
    /\ resolved = <<>>
    /\ emitted = <<>>
    /\ ret = <<>>

c_Pilot ==
    /\ Len(calls) < MaxCalls
    /\ Call(PilotPath)
    /\ UNCHANGED <<t_pc, d_vars, m_vars>>

c_Wizard ==
    /\ Len(calls) < MaxCalls
    /\ Call(WizardPath)
    /\ UNCHANGED <<t_pc, d_vars, m_vars>>

c_Human ==
    /\ Len(calls) < MaxCalls
    /\ Call(HumanPath)
    /\ UNCHANGED <<t_pc, d_vars, m_vars>>

c_Method ==
    /\ Len(calls) < MaxCalls
    /\ Call(MethodCall)
    /\ UNCHANGED <<t_pc, d_vars, m_vars>>

-----------------------------------------------------------------------------
(* demo/src/lib.rs, fn demo(), run by test_demo.                           *)

\* Vec::push
Vec_push(v, x) == Append(v, x)

\* A pop that takes the first element: a queue, not a stack.
Vec_pop_front(v) ==
    IF Len(v) = 0
    THEN [vec |-> v, ret |-> None]
    ELSE [vec |-> SubSeq(v, 2, Len(v)), ret |-> Some(v[1])]

\* Vec::pop: the last element and the vector without it, or None.
Vec_pop(v) ==
    IF Len(v) = 0
    THEN [vec |-> v, ret |-> None]
    ELSE [vec |-> SubSeq(v, 1, Len(v) - 1), ret |-> Some(v[Len(v)])]

DecDigit(d) ==
    CASE d = 0 -> "0" [] d = 1 -> "1" [] d = 2 -> "2" [] d = 3 -> "3"
      [] d = 4 -> "4" [] d = 5 -> "5" [] d = 6 -> "6" [] d = 7 -> "7"
      [] d = 8 -> "8" [] d = 9 -> "9"

\* `{}` of an i32: its decimal digits, a leading '-' when negative.
RECURSIVE fmt_nat(_)
fmt_nat(n) ==
    IF n < 10 THEN DecDigit(n) ELSE fmt_nat(n \div 10) \o DecDigit(n % 10)

fmt_i32(n) == IF n < 0 THEN "-" \o fmt_nat(-n) ELSE fmt_nat(n)

\* `stack`, `top` and `matcher` before their `let`.
NoVec == <<>>

d_Init ==
    /\ d_pc = 4
    /\ stack = NoVec
    /\ top = None
    /\ iters = 0
    /\ d_out = <<>>
    /\ matcher = Unassigned
    /\ arm = ""

\* line 4: let mut stack = Vec::new();
d_New ==
    /\ d_pc = 4
    /\ stack' = <<>>
    /\ d_pc' = 6
    /\ UNCHANGED <<top, iters, d_out, matcher, arm, t_vars, m_vars>>

\* line 6: stack.push(1);
d_Push1 ==
    /\ d_pc = 6
    /\ stack' = Vec_push(stack, 1)
    /\ d_pc' = 7
    /\ UNCHANGED <<top, iters, d_out, matcher, arm, t_vars, m_vars>>

\* line 7: stack.push(2);
d_Push2 ==
    /\ d_pc = 7
    /\ stack' = Vec_push(stack, 2)
    /\ d_pc' = 8
    /\ UNCHANGED <<top, iters, d_out, matcher, arm, t_vars, m_vars>>

\* line 8: stack.push(3);
d_Push3 ==
    /\ d_pc = 8
    /\ stack' = Vec_push(stack, 3)
    /\ d_pc' = 10
    /\ UNCHANGED <<top, iters, d_out, matcher, arm, t_vars, m_vars>>

\* line 10: while let Some(top) = stack.pop()
d_Pop ==
    /\ d_pc = 10
    /\ LET r == Vec_pop(stack)
       IN  /\ stack' = r.vec
           /\ top' = r.ret
           /\ d_pc' = IF r.ret.tag = "Some" THEN 11 ELSE 13
    /\ UNCHANGED <<iters, d_out, matcher, arm, t_vars, m_vars>>

\* line 11: println!("{}",top);  and back to the loop head
d_Print ==
    /\ d_pc = 11
    /\ d_out' = println(d_out, fmt_i32(top.val))
    /\ iters' = iters + 1
    /\ d_pc' = 10
    /\ UNCHANGED <<stack, top, matcher, arm, t_vars, m_vars>>

\* line 13: let mut matcher : Option<String> = Some(String::from("none"));
d_Matcher ==
    /\ d_pc = 13
    /\ matcher' = Assigned(Some("none"))
    /\ d_pc' = 14
    /\ UNCHANGED <<stack, top, iters, d_out, arm, t_vars, m_vars>>

\* lines 14..17: match matcher { Some(some) => some, _ => String::from("none") };
\* The arm's value is dropped; `matcher` is moved out of by the Some arm.
d_Match ==
    /\ d_pc = 14
    /\ arm' = IF matcher.val.tag = "Some" THEN "Some(some)" ELSE "_"
    /\ matcher' = IF matcher.val.tag = "Some" THEN Unassigned ELSE matcher
    /\ d_pc' = 19
    /\ UNCHANGED <<stack, top, iters, d_out, t_vars, m_vars>>

\* line 19: matcher = Some(String::new());  then demo returns (line 20).
d_Assign ==
    /\ d_pc = 19
    /\ matcher' = Assigned(Some(""))
    /\ d_pc' = 20
    /\ UNCHANGED <<stack, top, iters, d_out, arm, t_vars, m_vars>>

d_Done == d_pc = 20

-----------------------------------------------------------------------------
(* demo/src/main.rs, fn main().                                            *)

\* HashMap::new: a map is a function from its keys to their values.
HashMap_new == [k \in {} |-> ""]

\* An insert that is lost.
HashMap_insert_dropped(m, k, v) == m

\* HashMap::insert: the key maps to the value, replacing an earlier one.
HashMap_insert(m, k, v) ==
    [x \in DOMAIN m \cup {k} |-> IF x = k THEN v ELSE m[x]]

\* A lookup that never finds the key.
HashMap_get_miss(m, k) == None

\* HashMap::get
HashMap_get(m, k) == IF k \in DOMAIN m THEN Some(m[k]) ELSE None

\* HashMap::keys: the keys the iterator yields, in an order the hasher decides.
HashMap_keys(m) == DOMAIN m

\* `&key[..]`: the whole of the string slice.
FullSlice(k) == k

\* The text println!("Result: {}", start) writes.
ResultLine(s) == "Result: " \o s

m_Init ==
    /\ m_pc = 4
    /\ map = HashMap_new
    /\ start = Unassigned
    /\ repeat = Unassigned
    /\ remaining = Unassigned
    /\ message = Unassigned
    /\ keys = {}
    /\ key = ""
    /\ m_iters = 0
    /\ m_panic = ""
    /\ m_out = <<>>

\* line 4: let mut map: HashMap<&str, &str> = HashMap::new();
m_New ==
    /\ m_pc = 4
    /\ map' = HashMap_new
    /\ m_pc' = 5
    /\ UNCHANGED <<start, repeat, remaining, message, keys, key, m_iters,
                   m_panic, m_out, t_vars, d_vars>>

\* line 5: map.insert("start", "value");
m_Insert ==
    /\ m_pc = 5
    /\ map' = HashMap_insert(map, "start", "value")
    /\ m_pc' = 7
    /\ UNCHANGED <<start, repeat, remaining, message, keys, key, m_iters,
                   m_panic, m_out, t_vars, d_vars>>

\* lines 7..10: let mut start: &str = "Unknown";  repeat, remaining and message
\* are declared without a value.
m_Locals ==
    /\ m_pc = 7
    /\ start' = Assigned("Unknown")
    /\ m_pc' = 12
    /\ UNCHANGED <<map, repeat, remaining, message, keys, key, m_iters,
                   m_panic, m_out, t_vars, d_vars>>

\* line 12: `map.keys()` - the iterator of the for loop is made.  Label 20 is
\* the loop's closing brace, where the iterator is asked for its next key.
m_Keys ==
    /\ m_pc = 12
    /\ keys' = HashMap_keys(map)
    /\ m_pc' = 20
    /\ UNCHANGED <<map, start, repeat, remaining, message, key, m_iters,
                   m_panic, m_out, t_vars, d_vars>>

\* lines 12/20: `for key in ..` - the iterator yields a key it has not yielded
\* (any of them: the order is the hasher's), or the loop ends.
m_Next ==
    /\ m_pc = 20
    /\ IF keys = {}
       THEN /\ m_pc' = 22
            /\ UNCHANGED <<keys, key, m_iters>>
       ELSE \E k \in keys :
                /\ key' = k
                /\ keys' = keys \ {k}
                /\ m_iters' = m_iters + 1
                /\ m_pc' = 13
    /\ UNCHANGED <<map, start, repeat, remaining, message, m_panic, m_out,
                   t_vars, d_vars>>

\* lines 13..19: match &key[..] { .. } - each named arm assigns its variable
\* map.get(key).unwrap(), which panics on None; any other key is unreachable!().
\* A panic ends the program (label 23) without the print of line 22.
m_Match ==
    /\ m_pc = 13
    /\ LET k == FullSlice(key)
           got == HashMap_get(map, key)
           named == k \in {"start", "repeat", "remaining", "message"}
           val == IF got.tag = "Some" THEN Assigned(got.val) ELSE Unassigned
       IN  /\ m_panic' = IF ~named THEN "unreachable"
                         ELSE IF got.tag = "None" THEN "unwrap on None"
                         ELSE m_panic
           /\ m_pc' = IF ~named \/ got.tag = "None" THEN 23 ELSE 20
           /\ start' = IF k = "start" /\ got.tag = "Some" THEN val ELSE start
           /\ repeat' = IF k = "repeat" /\ got.tag = "Some" THEN val ELSE repeat
           /\ remaining' = IF k = "remaining" /\ got.tag = "Some" THEN val
                           ELSE remaining
           /\ message' = IF k = "message" /\ got.tag = "Some" THEN val
                         ELSE message
    /\ UNCHANGED <<map, keys, key, m_iters, m_out, t_vars, d_vars>>

\* line 22: println!("Result: {}", start);  then main returns (line 23).
m_Print ==
    /\ m_pc = 22
    /\ m_out' = println(m_out, ResultLine(start.val))
    /\ m_pc' = 23
    /\ UNCHANGED <<map, start, repeat, remaining, message, keys, key, m_iters,
                   m_panic, t_vars, d_vars>>

m_Done == m_pc = 23

-----------------------------------------------------------------------------
(* The specifications.                                                     *)

Init == t_Init /\ d_Init /\ m_Init

Next ==
    \/ t_Let \/ t_Pilot \/ t_Wizard \/ t_Human \/ t_Method
    \/ d_New \/ d_Push1 \/ d_Push2 \/ d_Push3 \/ d_Pop \/ d_Print
    \/ d_Matcher \/ d_Match \/ d_Assign
    \/ m_New \/ m_Insert \/ m_Locals \/ m_Keys \/ m_Next \/ m_Match \/ m_Print

\* The three programs, each run once from its first statement.
Spec == Init /\ [][Next]_vars

\* A program that has a next statement executes it.
FairSpec ==
    /\ Spec
    /\ WF_vars(t_Let \/ t_Pilot \/ t_Wizard \/ t_Human \/ t_Method)
    /\ WF_vars(d_New \/ d_Push1 \/ d_Push2 \/ d_Push3 \/ d_Pop \/ d_Print
               \/ d_Matcher \/ d_Match \/ d_Assign)
    /\ WF_vars(m_New \/ m_Insert \/ m_Locals \/ m_Keys \/ m_Next \/ m_Match
               \/ m_Print)

InitCalls == c_Init /\ d_Init /\ m_Init

NextCalls == c_Pilot \/ c_Wizard \/ c_Human \/ c_Method

\* Every sequence of at most MaxCalls of the four call forms on one Human.
SpecCalls == InitCalls /\ [][NextCalls]_vars

-----------------------------------------------------------------------------
(* The properties.                                                         *)

\* The four lines the dispatch example is to write, in order.
ExpectedOutput ==
    << "This is your captain speaking.", "Up!",
       "*waving arms furiously*", "*waving arms furiously*" >>

\* The call forms of main in the order main makes them.
MainOrder == <<PilotPath, WizardPath, HumanPath, MethodCall>>

\* The inherent fly of Human.
InherentFly == [ty |-> "Human", trait |-> "", name |-> "fly", method |-> TRUE]

\* C1: main of advanced_traits, run on one fresh Human, makes the Pilot-,
\* Wizard-, Human-qualified and unqualified calls in that order and writes
\* exactly the four expected lines in order: at every point of the run the
\* output is the prefix of the four lines that the calls made so far account
\* for, and at the end it is the four lines and nothing else.
C1_MainOutput ==
    LET n == IF t_pc = 52 THEN 0 ELSE t_pc - 53
    IN  /\ calls = SubSeq(MainOrder, 1, n)
        /\ out = SubSeq(ExpectedOutput, 1, n)
        /\ (t_Done => out = ExpectedOutput)

C1_Witness == t_Done /\ Len(out) = 4 /\ person = Human

\* C2: the unqualified call person.fly() resolves to the inherent Human::fly
\* and writes "*waving arms furiously*", never a trait's line, and so writes
\* what the inherent-qualified call Human::fly(&person) writes, wherever the
\* two calls stand in a sequence of calls.
C2_MethodCallIsInherent ==
    \A i \in 1..Len(calls) :
        calls[i] = MethodCall =>
            /\ resolved[i] = {InherentFly}
            /\ emitted[i] = <<"*waving arms furiously*">>
            /\ \A j \in 1..Len(calls) :
                   calls[j] = HumanPath =>
                       /\ emitted[j] = emitted[i]
                       /\ resolved[j] = resolved[i]

C2_Witness ==
    /\ calls = <<PilotPath, MethodCall, WizardPath, HumanPath>>
    /\ emitted[2] = emitted[4]

\* C3: the Pilot-qualified call writes exactly "This is your captain
\* speaking.", whatever calls were made before it.
C3_PilotLine ==
    \A i \in 1..Len(calls) :
        calls[i] = PilotPath =>
            emitted[i] = <<"This is your captain speaking.">>

C3_Witness ==
    /\ calls = <<WizardPath, HumanPath, MethodCall, PilotPath>>
    /\ out[4] = "This is your captain speaking."

\* C4: a Wizard-qualified call appends exactly "Up!" to the output and leaves
\* the value as it was, from every state: with no Pilot call before it, or
\* with any number of them.
C4_WizardFrame ==
    [][(Len(calls') = Len(calls) + 1 /\ calls'[Len(calls')] = WizardPath)
         => (out' = Append(out, "Up!") /\ person' = person)]_vars

C4_Witness ==
    /\ calls = <<PilotPath, PilotPath, PilotPath, WizardPath>>
    /\ out[4] = "Up!"

\* C5: the same qualified call (Pilot, Wizard or inherent Human) made twice in
\* succession writes the same single line both times, and no call changes the
\* Human value.
C5_Idempotent ==
    /\ person = Human
    /\ \A i \in 1..(Len(calls) - 1) :
           (calls[i + 1] = calls[i] /\ calls[i] # MethodCall) =>
               /\ Len(emitted[i]) = 1
               /\ emitted[i + 1] = emitted[i]

C5_Witness ==
    /\ calls = <<WizardPath, WizardPath, HumanPath, HumanPath>>
    /\ emitted[1] = emitted[2]
    /\ emitted[3] = emitted[4]

\* C6: every call form on a Human resolves to exactly one of the three fly
\* implementations of Human; the call writes exactly one line and returns ().
C6_OneImplOneLine ==
    \A i \in 1..Len(calls) :
        /\ Cardinality(resolved[i]) = 1
        /\ resolved[i] \subseteq {it \in Items : it.ty = "Human" /\ it.name = "fly"}
        /\ Len(emitted[i]) = 1
        /\ ret[i] = Unit

C6_Witness ==
    /\ {calls[i] : i \in 1..Len(calls)} = CallForms
    /\ Len(out) = 4

\* C8: demo() terminates; when it has, the while-let body has run exactly
\* three times (and never more at any point), the lines written are 3, 2, 1,
\* the stack is empty and the match took the Some arm.
C8_DemoTerminates ==
    /\ <>d_Done
    /\ [](iters <= 3)
    /\ [](d_Done => /\ iters = 3
                    /\ d_out = <<"3", "2", "1">>
                    /\ stack = <<>>
                    /\ arm = "Some(some)")

C8_Witness == d_Done /\ iters = 3 /\ Len(d_out) = 3

\* C9: main of demo writes exactly one line, "Result: value": start is
\* "Unknown" until the loop overwrites it with "value", which it has done
\* before the print.
C9_ResultValue ==
    /\ m_out \in {<<>>, <<"Result: value">>}
    /\ (m_pc = 22 => start = Assigned("value"))
    /\ (m_Done => m_out = <<"Result: value">>)
    /\ (m_pc \in {12, 20, 13} /\ m_iters = 0 => start = Assigned("Unknown"))

C9_Witness == m_Done /\ m_out = <<"Result: value">>

\* C10: the for loop of main of demo iterates exactly once, on the key
\* "start"; no unwrap fails and unreachable!() is not reached; repeat,
\* remaining and message are never assigned.
C10_OnlyStartArm ==
    /\ m_iters <= 1
    /\ (m_pc \in {22, 23} => m_iters = 1)
    /\ (m_pc = 13 => key = "start" /\ key \in DOMAIN map)
    /\ m_panic = ""
    /\ repeat = Unassigned
    /\ remaining = Unassigned
    /\ message = Unassigned

C10_Witness == m_pc = 22 /\ m_iters = 1 /\ key = "start" /\ keys = {}

=============================================================================
